---- MODULE Spec2Model ----
(***************************************************************************)
(* dhcping: a DHCP server liveness probe (src/dhcping.c).                  *)
(*                                                                         *)
(* The model follows main() from the command line to the libevent loop:    *)
(* option parsing, the tries x interval <= wait check, the bind/connect    *)
(* loop of dhcping_connect, dhcping_packet_init, and the three handlers    *)
(* dhcping_retry, dhcping_input and dhcping_maxwait.                       *)
(*                                                                         *)
(* Time is counted in whole seconds (every timeval of the program has      *)
(* tv_usec = 0).  The reactor is libevent: a timer handler runs when the   *)
(* clock reaches the timer's expiry, handlers run one at a time and take   *)
(* no time.  Under Spec the clock does not pass a pending timer's expiry   *)
(* (the reactor is punctual); under SpecLate the process may be scheduled  *)
(* late, so that a handler runs after its timer's expiry.  Timers that are *)
(* due together run in the order of their expiry.                          *)
(***************************************************************************)
EXTENDS Integers, Sequences, FiniteSets, TLC

(***************************************************************************)
(* Program constants (src/dhcping.c:39-52).                                *)
(***************************************************************************)
DHCP_TRIES_MIN == 1
DHCP_TRIES_MAX == 32
DHCP_TRIES_DEFAULT == 3
DHCP_IVAL_MIN == 1
DHCP_IVAL_MAX == 10
DHCP_IVAL_DEFAULT == 2
DHCP_MAXWAIT_MIN == 3
DHCP_MAXWAIT_MAX == 60
DHCP_MAXWAIT_DEFAULT == 8

\* sizeof(dhcping->packet): uint8_t packet[BOOTP_MIN_LEN] (the value is the
\* BOOTP minimum packet length of dhcp.h).
BOOTP_MIN_LEN == 300

(***************************************************************************)
(* Bounds of the model.                                                    *)
(***************************************************************************)
\* -t values tried: 0..MaxTriesArg, and DHCP_TRIES_MAX, DHCP_TRIES_MAX + 1
MaxTriesArg == 5
\* -w values tried: DHCP_MAXWAIT_MIN-1..MaxWaitArg, and DHCP_MAXWAIT_MAX (+1)
MaxWaitArg == 10
\* local candidates returned by getaddrinfo(local)
MaxLocal == 2
\* remote candidates returned by getaddrinfo(remote)
MaxRemote == 2
\* consecutive transient failures of one write
MaxSpin == 2
\* longest datagram length returned by read (lengths 0..MaxRead)
MaxRead == 1
\* SpecLate: seconds by which handlers run late, summed over a run
MaxLate == 3

VARIABLES
    pc,          \* position of the program: in main, in a handler, in the loop
    argv,        \* the command line main was started with
    dhcping,     \* struct dhcping: packet, s, interval, retries, secs, verbose
    maxwait_tv,  \* main's local struct timeval maxwait (seconds)
    tries,       \* dhcping.retries as configured, before the first send
    res,         \* dhcping_connect: position in the local candidate list
    sock,        \* the socket most recently created by dhcping_connect
    socks,       \* sockets opened and closed so far
    conn,        \* dhcping_connect's locals while it runs: s, errstr, cause,
                 \* whether a candidate has failed at the remote side, and
                 \* the candidates of the local list visited so far
    ev_input,    \* dhcping.input:   [pending]
    ev_retry,    \* dhcping.retry:   [pending, at]
    ev_maxwait,  \* dhcping.maxwait: [pending, at]
    now,         \* the reactor's clock, seconds since main started
    late,        \* seconds the clock has passed a due timer, summed
    spins,       \* transient write failures of the current dhcping_retry call,
                 \* counted up to MaxSpin
    sent,        \* the packets written to the socket, in order
    last,        \* the handler that ran last and what its system call returned
    warned,      \* diagnostics printed by warnx
    status,      \* <<>> while running, <<n>> once the process has exited with n
    cause        \* the call that ended the process

vars == <<pc, argv, dhcping, maxwait_tv, tries, res, sock, socks, conn,
          ev_input, ev_retry, ev_maxwait, now, late, spins, sent, last,
          warned, status, cause>>

(***************************************************************************)
(* Integer widths.                                                         *)
(***************************************************************************)
\* unsigned short: values 0 .. 2^16 - 1
USHRT_MOD == 2 ^ 16

\* unsigned int: held as its 32-bit pattern read in two's complement, so
\* UINT_MAX is -1 and the values from 2^31 up are the negative ones; x - 1
\* is then the unsigned decrement, wrap from 0 to UINT_MAX included
uint_dec(x) == x - 1

\* htons(x): the two bytes the 16-bit value occupies in memory, network order
htons(x) == << (x \div 256) % 256, x % 256 >>

\* htonl(x): the four bytes of the 32-bit value, network order
htonl(x) == << (x \div (2 ^ 24)) % 256, (x \div (2 ^ 16)) % 256,
               (x \div 256) % 256, x % 256 >>

(***************************************************************************)
(* The command line.  An option is <<>> when absent, <<optarg>> when       *)
(* given.  -l and -u only carry strings handed to the resolver, whose      *)
(* answers are chosen in dhcping_connect.                                  *)
(***************************************************************************)
Opt(S) == {<<>>} \cup {<<v>> : v \in S}

IvalArgs == Opt({DHCP_IVAL_MIN - 1, DHCP_IVAL_MIN, DHCP_IVAL_DEFAULT,
                 DHCP_IVAL_MAX, DHCP_IVAL_MAX + 1})
TriesArgs == Opt((0 .. MaxTriesArg) \cup {DHCP_TRIES_MAX, DHCP_TRIES_MAX + 1})
WaitArgs == Opt(((DHCP_MAXWAIT_MIN - 1) .. MaxWaitArg)
                \cup {DHCP_MAXWAIT_MAX, DHCP_MAXWAIT_MAX + 1})
\* 00:11:22:33:44:55, a five-octet address, and one with an octet of 0x100
MacArgs == Opt({ <<0, 17, 34, 51, 68, 85>>, <<0, 17, 34, 51, 68>>,
                 <<0, 17, 34, 51, 68, 256>> })

\* what getpid can return: 0x00010203
Pids == { 2 ^ 16 + 2 * 256 + 3 }

Argv == [i : IvalArgs, t : TriesArgs, w : WaitArgs, h : MacArgs,
         s : BOOLEAN, v : BOOLEAN, operands : BOOLEAN]

NoArgv == [i |-> <<>>, t |-> <<>>, w |-> <<>>, h |-> <<>>, s |-> FALSE,
           v |-> FALSE, operands |-> FALSE]

\* the options of a command line in the order getopt meets them
ArgvOptions(a) ==
    (IF a.h = <<>> THEN <<>> ELSE << [opt |-> "h", optarg |-> a.h[1]] >>)
    \o (IF a.i = <<>> THEN <<>> ELSE << [opt |-> "i", optarg |-> a.i[1]] >>)
    \o (IF a.t = <<>> THEN <<>> ELSE << [opt |-> "t", optarg |-> a.t[1]] >>)
    \o (IF a.w = <<>> THEN <<>> ELSE << [opt |-> "w", optarg |-> a.w[1]] >>)
    \o (IF a.s THEN << [opt |-> "s", optarg |-> 0] >> ELSE <<>>)
    \o (IF a.v THEN << [opt |-> "v", optarg |-> 0] >> ELSE <<>>)

\* the option string handed to getopt
optstring == {"h", "l", "s", "t", "u", "w", "v"}

\* getopt: the option character when the option string has it, else '?'
getopt(opt) == IF opt \in optstring THEN opt ELSE "?"

\* strtonum(optarg, minval, maxval, &errstr)
strtonum(v, minval, maxval) ==
    IF v < minval THEN [val |-> 0, errstr |-> "too small"]
    ELSE IF v > maxval THEN [val |-> 0, errstr |-> "too large"]
    ELSE [val |-> v, errstr |-> ""]

\* main's locals and the configured fields of struct dhcping at declaration
MainDefaults ==
    [verbose |-> FALSE, interval |-> DHCP_IVAL_DEFAULT,
     retries |-> DHCP_TRIES_DEFAULT, maxwait |-> DHCP_MAXWAIT_DEFAULT,
     mac |-> <<>>, server |-> FALSE, cause |-> ""]

\* the switch (ch) of main's option loop; cause is set where the process ends
main_switch(ch, optarg, m) ==
    CASE ch = "h" -> [m EXCEPT !.mac = <<optarg>>]
      [] ch = "i" ->
           LET n == strtonum(optarg, DHCP_IVAL_MIN, DHCP_IVAL_MAX)
           IN  [m EXCEPT !.interval = n.val,
                         !.cause = IF n.errstr # "" THEN "interval" ELSE ""]
      [] ch = "t" ->
           LET n == strtonum(optarg, DHCP_TRIES_MIN, DHCP_TRIES_MAX)
           IN  [m EXCEPT !.retries = n.val,
                         !.cause = IF n.errstr # "" THEN "tries" ELSE ""]
      [] ch = "s" -> [m EXCEPT !.server = TRUE]
      [] ch = "w" ->
           LET n == strtonum(optarg, DHCP_MAXWAIT_MIN, DHCP_MAXWAIT_MAX)
           IN  [m EXCEPT !.maxwait = n.val,
                         !.cause = IF n.errstr # "" THEN "wait" ELSE ""]
      [] ch = "v" -> [m EXCEPT !.verbose = TRUE]
      [] OTHER -> [m EXCEPT !.cause = "usage"]

\* while ((ch = getopt(...)) != -1) switch (ch) ...
RECURSIVE main_getopt_loop(_, _)
main_getopt_loop(opts, m) ==
    IF opts = <<>> THEN m
    ELSE LET m1 == main_switch(getopt(Head(opts).opt), Head(opts).optarg, m)
         IN  IF m1.cause # "" THEN m1 ELSE main_getopt_loop(Tail(opts), m1)

\* a variant of the timing check that adds where the code multiplies
main_timing_refused_sum(retries, interval, maxwait) ==
    retries + interval > maxwait

\* the timing check: TRUE when the configuration is refused
main_timing_refused(retries, interval, maxwait) ==
    retries * interval > maxwait

\* ether_aton: six octets, each 0..255, or NULL
ether_aton(mac) ==
    IF Len(mac) = 6 /\ \A k \in 1 .. 6 : mac[k] \in 0 .. 255
    THEN <<mac>> ELSE <<>>

\* main from the option loop to ether_aton
main_configure(a) ==
    LET m == main_getopt_loop(ArgvOptions(a), MainDefaults)
    IN  IF m.cause # "" THEN m
        ELSE IF a.operands \/ m.mac = <<>> \/ ~m.server
             THEN [m EXCEPT !.cause = "usage"]
        ELSE IF main_timing_refused(m.retries, m.interval, m.maxwait)
             THEN [m EXCEPT !.cause = "timing"]
        ELSE IF ether_aton(m.mac[1]) = <<>>
             THEN [m EXCEPT !.cause = "mac"]
        ELSE m


(***************************************************************************)
(* The packet (struct dhcp_packet over dhcping.packet).  Multi-byte fields *)
(* are held as the bytes they occupy in memory, so as they go on the wire. *)
(***************************************************************************)
\* the buffer as the initialiser of struct dhcping leaves it: all zero
ZeroPacket ==
    [op |-> 0, htype |-> 0, hlen |-> 0, hops |-> 0, xid |-> htonl(0),
     secs |-> htons(0), flags |-> 0, giaddr |-> 0, chaddr |-> <<>>,
     cookie |-> "", options |-> <<>>]

\* the parameter request list
dhcping_requested ==
    << "DHO_SUBNET_MASK", "DHO_BROADCAST_ADDRESS", "DHO_TIME_OFFSET",
       "DHO_CLASSLESS_STATIC_ROUTES", "DHO_ROUTERS", "DHO_DOMAIN_NAME",
       "DHO_DOMAIN_SEARCH", "DHO_DOMAIN_NAME_SERVERS", "DHO_HOST_NAME",
       "DHO_BOOTFILE_NAME", "DHO_TFTP_SERVER" >>

\* dhcping_packet_init after getsockname: sin is the socket's local address
dhcping_packet_init(p, sin, ea, pid) ==
    [p EXCEPT !.op = 1, !.htype = 1, !.hlen = Len(ea), !.hops = 1,
              !.xid = htonl(pid), !.secs = htons(0), !.flags = 0,
              !.giaddr = sin, !.chaddr = ea, !.cookie = "DHCP_OPTIONS_COOKIE",
              !.options = << "DHO_DHCP_MESSAGE_TYPE", 1, "DHCPDISCOVER",
                             "DHO_DHCP_PARAMETER_REQUEST_LIST",
                             Len(dhcping_requested) >>
                          \o dhcping_requested \o << "DHO_END" >>]

(***************************************************************************)
(* Transport setup: dhcping_connect and dhcping_bind_connect.  A local     *)
(* candidate is what the system calls made for it return: socket, bind,    *)
(* and the remote resolution with the connect result of each remote        *)
(* candidate.                                                              *)
(***************************************************************************)
BoolSeqs(n) == UNION { [1 .. k -> BOOLEAN] : k \in 1 .. n }

RemoteResults ==
    { [gai |-> FALSE, connect |-> <<>>] }
    \cup { [gai |-> TRUE, connect |-> q] : q \in BoolSeqs(MaxRemote) }

\* a candidate of the local list: the outcomes of the calls made for it; a
\* call that is never reached is written as failed
Candidates ==
    { c \in [socket : BOOLEAN, bind : BOOLEAN, remote : RemoteResults] :
        /\ ~c.socket => ~c.bind
        /\ ~c.bind => c.remote = [gai |-> FALSE, connect |-> <<>>] }

\* the first remote candidate whose connect succeeds, 0 when none does
RECURSIVE first_connect(_, _)
first_connect(q, k) ==
    IF k > Len(q) THEN 0
    ELSE IF q[k] THEN k
    ELSE first_connect(q, k + 1)

\* dhcping_bind_connect: the return value, *errstr and the candidate connected
dhcping_bind_connect(remote) ==
    IF ~remote.gai
    THEN [error |-> -1, errstr |-> "gai_strerror", peer |-> 0]
    ELSE LET k == first_connect(remote.connect, 1)
         IN  IF k = 0
             THEN [error |-> -1, errstr |-> "strerror", peer |-> 0]
             ELSE [error |-> 0, errstr |-> "", peer |-> k]

\* the locals of dhcping_connect outside a call of it
NoConn == [s |-> -1, errstr |-> "", cause |-> "", remote_failed |-> FALSE,
           tried |-> <<>>]

NoSock == [fd |-> -1, open |-> FALSE, bound |-> 0, peer |-> 0]

\* a variant of the loop body that does not close the socket when bind fails
dhcping_connect_body_leak(c, k, cn) ==
    IF ~c.socket
    THEN [s |-> -1, errstr |-> "", cause |-> "socket", brk |-> FALSE,
          sock |-> NoSock, opened |-> 0, closed |-> 0,
          remote_failed |-> cn.remote_failed]
    ELSE IF ~c.bind
    THEN [s |-> -1, errstr |-> "", cause |-> "bind", brk |-> FALSE,
          sock |-> [fd |-> 3, open |-> TRUE, bound |-> 0, peer |-> 0],
          opened |-> 1, closed |-> 0, remote_failed |-> cn.remote_failed]
    ELSE LET b == dhcping_bind_connect(c.remote)
         IN  IF b.error = -1
             THEN [s |-> -1, errstr |-> b.errstr, cause |-> cn.cause,
                   brk |-> FALSE,
                   sock |-> [fd |-> 3, open |-> FALSE, bound |-> k,
                             peer |-> 0],
                   opened |-> 1, closed |-> 1, remote_failed |-> TRUE]
             ELSE [s |-> 3, errstr |-> b.errstr, cause |-> cn.cause,
                   brk |-> TRUE,
                   sock |-> [fd |-> 3, open |-> TRUE, bound |-> k,
                             peer |-> b.peer],
                   opened |-> 1, closed |-> 0,
                   remote_failed |-> cn.remote_failed]

\* one iteration of the for loop of dhcping_connect over candidate c, the
\* k-th of the list: the locals s, errstr and cause, the socket, and whether
\* the loop is left by break
dhcping_connect_body(c, k, cn) ==
    IF ~c.socket
    THEN [s |-> -1, errstr |-> "", cause |-> "socket", brk |-> FALSE,
          sock |-> NoSock, opened |-> 0, closed |-> 0,
          remote_failed |-> cn.remote_failed]
    ELSE IF ~c.bind
    THEN [s |-> -1, errstr |-> "", cause |-> "bind", brk |-> FALSE,
          sock |-> [fd |-> 3, open |-> FALSE, bound |-> 0, peer |-> 0],
          opened |-> 1, closed |-> 1, remote_failed |-> cn.remote_failed]
    ELSE LET b == dhcping_bind_connect(c.remote)
         IN  IF b.error = -1
             THEN [s |-> -1, errstr |-> b.errstr, cause |-> cn.cause,
                   brk |-> FALSE,
                   sock |-> [fd |-> 3, open |-> FALSE, bound |-> k,
                             peer |-> 0],
                   opened |-> 1, closed |-> 1, remote_failed |-> TRUE]
             ELSE [s |-> 3, errstr |-> b.errstr, cause |-> cn.cause,
                   brk |-> TRUE,
                   sock |-> [fd |-> 3, open |-> TRUE, bound |-> k,
                             peer |-> b.peer],
                   opened |-> 1, closed |-> 0,
                   remote_failed |-> cn.remote_failed]

\* a variant of the end of dhcping_connect without the test of s
dhcping_connect_end_errstr(s, errstr) ==
    IF errstr # "" THEN "server" ELSE ""

\* dhcping_connect after the loop: the diagnostic it dies with, "" to return s
dhcping_connect_end(s, errstr) ==
    IF errstr # "" THEN "server"
    ELSE IF s = -1 THEN "local address"
    ELSE ""

(***************************************************************************)
(* The handlers.                                                           *)
(***************************************************************************)
\* what read() on the socket can return: a length, or -1 with errno
ReadResults ==
    { [rv |-> n, errno |-> ""] : n \in 0 .. MaxRead }
    \cup { [rv |-> -1, errno |-> e] : e \in {"EAGAIN", "EINTR", "ECONNREFUSED"} }

\* what write() of count bytes on the datagram socket can return
WriteResults(count) ==
    { [rv |-> count, errno |-> ""] }
    \cup { [rv |-> -1, errno |-> e] : e \in {"EAGAIN", "EINTR", "ECONNREFUSED"} }

\* a variant of dhcping_input that waits on when read returns 0
dhcping_input_result_nonempty(rv, errno) ==
    IF rv = -1
    THEN IF errno \in {"EAGAIN", "EINTR"} THEN "return" ELSE "err"
    ELSE IF rv = 0 THEN "return"
    ELSE "exit"

\* a variant of dhcping_input whose transient errors fall through to exit(0)
dhcping_input_result_fallthrough(rv, errno) ==
    IF rv = -1 /\ errno \notin {"EAGAIN", "EINTR"} THEN "err" ELSE "exit"

\* dhcping_input after read: "return", "err" (err(1, "input")) or "exit"
dhcping_input_result(rv, errno) ==
    IF rv = -1
    THEN IF errno \in {"EAGAIN", "EINTR"} THEN "return" ELSE "err"
    ELSE "exit"

\* a variant of the store of secs without htons, on a little-endian host
dhcping_retry_secs_host(d) ==
    [d EXCEPT !.packet.secs = << d.secs % 256, (d.secs \div 256) % 256 >>]

\* a variant of the store of secs that lands on the neighbouring field
dhcping_retry_secs_flags(d) ==
    [d EXCEPT !.packet.secs = htons(d.secs), !.packet.flags = d.secs]

\* dhcping_retry before the write: p->secs = htons(dhcping->secs)
dhcping_retry_secs(d) == [d EXCEPT !.packet.secs = htons(d.secs)]

\* a variant of dhcping_retry whose switch lacks case EAGAIN
dhcping_retry_result_eintr(rv, errno) ==
    IF rv = -1
    THEN IF errno \in {"EINTR"} THEN "goto retry" ELSE "err"
    ELSE "sent"

\* dhcping_retry after write: "goto retry", "err" (err(1, "transmit")) or "sent"
dhcping_retry_result(rv, errno) ==
    IF rv = -1
    THEN IF errno \in {"EINTR", "EAGAIN"} THEN "goto retry" ELSE "err"
    ELSE "sent"

\* the count dhcping_retry hands to write: sizeof(dhcping->packet)
dhcping_retry_count(d) == BOOTP_MIN_LEN

\* a variant of the end of dhcping_retry that gives up once the tries are
\* spent
dhcping_retry_rearm_giveup(d, rt, t) ==
    LET n == uint_dec(d.retries)
    IN  IF n = 0
        THEN [d |-> [d EXCEPT !.retries = n], retry |-> rt, exit |-> <<2>>]
        ELSE [d |-> [d EXCEPT !.retries = n,
                              !.secs = (d.secs + d.interval) % USHRT_MOD],
              retry |-> [pending |-> TRUE, at |-> t + d.interval],
              exit |-> <<>>]

\* a variant of the end of dhcping_retry that tests before it decrements:
\* if (dhcping->retries-- == 0)
dhcping_retry_rearm_postdec(d, rt, t) ==
    LET n == uint_dec(d.retries)
    IN  IF d.retries = 0
        THEN [d |-> [d EXCEPT !.retries = n], retry |-> rt, exit |-> <<>>]
        ELSE [d |-> [d EXCEPT !.retries = n,
                              !.secs = (d.secs + d.interval) % USHRT_MOD],
              retry |-> [pending |-> TRUE, at |-> t + d.interval],
              exit |-> <<>>]

\* a variant of the end of dhcping_retry that arms the timer with the
\* elapsed seconds in place of the interval
dhcping_retry_rearm_elapsed(d, rt, t) ==
    LET n == uint_dec(d.retries)
        e == (d.secs + d.interval) % USHRT_MOD
    IN  IF n = 0
        THEN [d |-> [d EXCEPT !.retries = n], retry |-> rt, exit |-> <<>>]
        ELSE [d |-> [d EXCEPT !.retries = n, !.secs = e],
              retry |-> [pending |-> TRUE, at |-> t + e],
              exit |-> <<>>]

\* a variant of the end of dhcping_retry without the test of retries
dhcping_retry_rearm_always(d, rt, t) ==
    [d |-> [d EXCEPT !.retries = uint_dec(d.retries),
                     !.secs = (d.secs + d.interval) % USHRT_MOD],
     retry |-> [pending |-> TRUE, at |-> t + d.interval],
     exit |-> <<>>]

\* dhcping_retry after a successful write, run at time t: the struct, the
\* retry timer, and the status when it exits (it never does: <<>>)
dhcping_retry_rearm(d, rt, t) ==
    LET n == uint_dec(d.retries)
    IN  IF n = 0
        THEN [d |-> [d EXCEPT !.retries = n], retry |-> rt, exit |-> <<>>]
        ELSE [d |-> [d EXCEPT !.retries = n,
                              !.secs = (d.secs + d.interval) % USHRT_MOD],
              retry |-> [pending |-> TRUE, at |-> t + d.interval],
              exit |-> <<>>]

\* a variant of dhcping_maxwait that returns while tries are left
dhcping_maxwait_result_budget(d) ==
    [warn |-> d.verbose, exit |-> IF d.retries = 0 THEN <<2>> ELSE <<>>]

\* dhcping_maxwait: whether it warns, and the status it exits with
dhcping_maxwait_result(d) == [warn |-> d.verbose, exit |-> <<2>>]

\* a variant of the registration of the input event without EV_PERSIST
input_flags_oneshot == {"EV_READ"}

\* the flags main registers the input event with
input_flags == {"EV_READ", "EV_PERSIST"}

\* a variant of main that calls dhcping_retry without the maxwait timer
\* added
main_event_add_input(t, maxwait) ==
    [input |-> [pending |-> TRUE], maxwait |-> [pending |-> FALSE, at |-> 0]]

\* main before its call of dhcping_retry, at time t: event_add of the input
\* event and evtimer_add of the maxwait timer
main_event_add(t, maxwait) ==
    [input |-> [pending |-> TRUE],
     maxwait |-> [pending |-> TRUE, at |-> t + maxwait]]

(***************************************************************************)
(* Initial state: the process at the entry of main.                        *)
(***************************************************************************)
Init ==
    /\ pc = "main"
    /\ argv = NoArgv
    /\ dhcping = [packet |-> ZeroPacket, s |-> 0,
                  interval |-> DHCP_IVAL_DEFAULT,
                  retries |-> DHCP_TRIES_DEFAULT, secs |-> 0,
                  verbose |-> FALSE]
    /\ maxwait_tv = DHCP_MAXWAIT_DEFAULT
    /\ tries = DHCP_TRIES_DEFAULT
    /\ res = 0
    /\ sock = NoSock
    /\ socks = [opened |-> 0, closed |-> 0]
    /\ conn = NoConn
    /\ ev_input = [pending |-> FALSE]
    /\ ev_retry = [pending |-> FALSE, at |-> 0]
    /\ ev_maxwait = [pending |-> FALSE, at |-> 0]
    /\ now = 0
    /\ late = 0
    /\ spins = 0
    /\ sent = <<>>
    /\ last = [ev |-> "", rv |-> 0, errno |-> ""]
    /\ warned = <<>>
    /\ status = <<>>
    /\ cause = ""

\* exit(n), reached through the named call
Exit(n, why) == pc' = "exited" /\ status' = <<n>> /\ cause' = why

Goto(p) == pc' = p /\ UNCHANGED <<status, cause>>

\* a handler returns to event_dispatch, which returns to main (return (0))
\* when no event is registered any more
event_dispatch(in, rt, mw) ==
    IF in.pending \/ rt.pending \/ mw.pending
    THEN Goto("event_dispatch")
    ELSE Exit(0, "main return")

(***************************************************************************)
(* main, lines 196-265: options, usage, timing check, ether_aton.          *)
(***************************************************************************)
main ==
    /\ pc = "main"
    /\ \E a \in Argv :
         LET m == main_configure(a)
         IN  /\ argv' = a
             /\ dhcping' = [dhcping EXCEPT !.interval = m.interval,
                                           !.retries = m.retries,
                                           !.verbose = m.verbose]
             /\ maxwait_tv' = m.maxwait
             /\ tries' = m.retries
             /\ IF m.cause # "" THEN Exit(1, m.cause)
                ELSE Goto("dhcping_connect")
    /\ UNCHANGED <<res, sock, socks, conn, ev_input, ev_retry, ev_maxwait,
                   now, late, spins, sent, last, warned>>

(***************************************************************************)
(* dhcping_connect, lines 147-151: resolution of the local address.        *)
(***************************************************************************)
dhcping_connect_local ==
    /\ pc = "dhcping_connect"
    /\ \E error \in BOOLEAN :
         IF error
         THEN Exit(1, "local address gai") /\ UNCHANGED res
         ELSE Goto("dhcping_connect_loop") /\ res' = 1
    /\ UNCHANGED <<argv, dhcping, maxwait_tv, tries, sock, socks, conn,
                   ev_input, ev_retry, ev_maxwait, now, late, spins, sent, last,
                   warned>>

(***************************************************************************)
(* dhcping_connect, lines 153-190: one candidate of the loop, and the end  *)
(* of the function when the loop is left.  more: res->ai_next != NULL.     *)
(***************************************************************************)
dhcping_connect ==
    /\ pc = "dhcping_connect_loop"
    /\ \E c \in Candidates, more \in BOOLEAN :
         LET b == dhcping_connect_body(c, res, conn)
         IN  /\ more => res < MaxLocal
             /\ conn' = [s |-> b.s, errstr |-> b.errstr, cause |-> b.cause,
                         remote_failed |-> b.remote_failed,
                         tried |-> Append(conn.tried, c)]
             /\ sock' = b.sock
             /\ socks' = [opened |-> socks.opened + b.opened,
                          closed |-> socks.closed + b.closed]
             /\ IF ~b.brk /\ more
                THEN /\ res' = res + 1
                     /\ Goto("dhcping_connect_loop")
                     /\ UNCHANGED dhcping
                ELSE /\ UNCHANGED res
                     /\ LET diag == dhcping_connect_end(b.s, b.errstr)
                        IN  IF diag # ""
                            THEN Exit(1, diag) /\ UNCHANGED dhcping
                            ELSE /\ Goto("dhcping_packet_init")
                                 /\ dhcping' = [dhcping EXCEPT !.s = b.s]
    /\ UNCHANGED <<argv, maxwait_tv, tries, ev_input, ev_retry, ev_maxwait,
                   now, late, spins, sent, last, warned>>


(***************************************************************************)
(* main, lines 270-282: dhcping_packet_init, the input event and the       *)
(* maxwait timer are added, and dhcping_retry is called up to its write.   *)
(***************************************************************************)
main_start ==
    /\ pc = "dhcping_packet_init"
    /\ \E pid \in Pids, getsockname \in BOOLEAN :
         /\ getsockname => sock.open /\ sock.fd = dhcping.s
         /\ IF ~getsockname
            THEN /\ Exit(1, "getsockname")
                 /\ UNCHANGED <<dhcping, ev_input, ev_maxwait>>
            ELSE /\ dhcping' = dhcping_retry_secs(
                        [dhcping EXCEPT !.packet =
                            dhcping_packet_init(dhcping.packet, sock.bound,
                                                ether_aton(argv.h[1])[1], pid)])
                 /\ ev_input' = main_event_add(now, maxwait_tv).input
                 /\ ev_maxwait' = main_event_add(now, maxwait_tv).maxwait
                 /\ Goto("write")
    /\ spins' = 0
    /\ conn' = NoConn
    /\ UNCHANGED <<argv, maxwait_tv, tries, res, sock, socks, ev_retry,
                   now, late, sent, last, warned>>

(***************************************************************************)
(* dhcping_retry, lines 364-371: the retry timer expires; libevent takes   *)
(* the timer off its queue and calls the handler, which stores secs.       *)
(***************************************************************************)
dhcping_retry ==
    /\ pc = "event_dispatch"
    /\ ev_retry.pending /\ ev_retry.at <= now
    /\ ev_maxwait.pending => ev_retry.at <= ev_maxwait.at
    /\ ev_retry' = [ev_retry EXCEPT !.pending = FALSE]
    /\ dhcping' = dhcping_retry_secs(dhcping)
    /\ spins' = 0
    /\ last' = [ev |-> "retry", rv |-> 0, errno |-> ""]
    /\ Goto("write")
    /\ UNCHANGED <<argv, maxwait_tv, tries, res, sock, socks, conn, ev_input,
                   ev_maxwait, now, late, sent, warned>>

(***************************************************************************)
(* dhcping_retry, lines 373-391: the write and what follows it.            *)
(***************************************************************************)
dhcping_retry_write ==
    /\ pc = "write"
    /\ \E w \in WriteResults(dhcping_retry_count(dhcping)) :
         LET r == dhcping_retry_result(w.rv, w.errno)
         IN  /\ last' = [ev |-> "write", rv |-> w.rv, errno |-> w.errno]
             /\ CASE r = "goto retry" ->
                       /\ spins' = IF spins < MaxSpin THEN spins + 1 ELSE spins
                       /\ Goto("write")
                       /\ UNCHANGED <<dhcping, ev_retry, sent>>
                  [] r = "err" ->
                       /\ Exit(1, "transmit")
                       /\ UNCHANGED <<dhcping, ev_retry, sent, spins>>
                  [] OTHER ->
                       LET a == dhcping_retry_rearm(dhcping, ev_retry, now)
                       IN  /\ sent' = Append(sent, [t |-> now, len |-> w.rv,
                                                    pkt |-> dhcping.packet])
                           /\ dhcping' = a.d
                           /\ ev_retry' = a.retry
                           /\ spins' = 0
                           /\ IF a.exit # <<>>
                              THEN Exit(a.exit[1], "retry")
                              ELSE event_dispatch(ev_input, a.retry,
                                                  ev_maxwait)
    /\ UNCHANGED <<argv, maxwait_tv, tries, res, sock, socks, conn, ev_input,
                   ev_maxwait, now, late, warned>>

(***************************************************************************)
(* dhcping_input, lines 343-362: the socket is reported readable.          *)
(***************************************************************************)
dhcping_input ==
    /\ pc = "event_dispatch"
    /\ ev_input.pending
    /\ \E r \in ReadResults :
         LET o == dhcping_input_result(r.rv, r.errno)
             in == [pending |-> "EV_PERSIST" \in input_flags]
         IN  /\ last' = [ev |-> "input", rv |-> r.rv, errno |-> r.errno]
             /\ CASE o = "return" ->
                       /\ ev_input' = in
                       /\ event_dispatch(in, ev_retry, ev_maxwait)
                  [] o = "err" -> Exit(1, "input") /\ UNCHANGED ev_input
                  [] OTHER -> Exit(0, "input") /\ UNCHANGED ev_input
    /\ UNCHANGED <<argv, dhcping, maxwait_tv, tries, res, sock, socks, conn,
                   ev_retry, ev_maxwait, now, late, spins, sent, warned>>

(***************************************************************************)
(* dhcping_maxwait, lines 394-403: the deadline timer expires.             *)
(***************************************************************************)
dhcping_maxwait ==
    /\ pc = "event_dispatch"
    /\ ev_maxwait.pending /\ ev_maxwait.at <= now
    /\ ev_retry.pending => ev_maxwait.at <= ev_retry.at
    /\ LET o == dhcping_maxwait_result(dhcping)
           mw == [ev_maxwait EXCEPT !.pending = FALSE]
       IN  /\ ev_maxwait' = mw
           /\ last' = [ev |-> "maxwait", rv |-> 0, errno |-> ""]
           /\ warned' = IF o.warn
                        THEN Append(warned, "timeout waiting for reply")
                        ELSE warned
           /\ IF o.exit # <<>> THEN Exit(o.exit[1], "maxwait")
              ELSE event_dispatch(ev_input, ev_retry, mw)
    /\ UNCHANGED <<argv, dhcping, maxwait_tv, tries, res, sock, socks, conn,
                   ev_input, ev_retry, now, late, spins, sent>>

(***************************************************************************)
(* event_dispatch waits: no timer is due, and a second passes.             *)
(***************************************************************************)
event_wait ==
    /\ pc = "event_dispatch"
    /\ ev_retry.pending \/ ev_maxwait.pending
    /\ ev_retry.pending => now < ev_retry.at
    /\ ev_maxwait.pending => now < ev_maxwait.at
    /\ now' = now + 1
    /\ UNCHANGED <<late, pc, argv, dhcping, maxwait_tv, tries, res, sock, socks,
                   conn, ev_input, ev_retry, ev_maxwait, spins, sent, last,
                   warned, status, cause>>

(***************************************************************************)
(* The process is not scheduled although a timer is due: a second passes.  *)
(* Explored for the waits up to MaxWaitArg.                                *)
(***************************************************************************)
event_wait_late ==
    /\ pc = "event_dispatch"
    /\ \/ ev_retry.pending /\ ev_retry.at <= now
       \/ ev_maxwait.pending /\ ev_maxwait.at <= now
    /\ late < MaxLate
    /\ maxwait_tv <= MaxWaitArg
    /\ now' = now + 1
    /\ late' = late + 1
    /\ UNCHANGED <<pc, argv, dhcping, maxwait_tv, tries, res, sock, socks,
                   conn, ev_input, ev_retry, ev_maxwait, spins, sent, last,
                   warned, status, cause>>

Next ==
    \/ main
    \/ dhcping_connect_local
    \/ dhcping_connect
    \/ main_start
    \/ dhcping_retry
    \/ dhcping_retry_write
    \/ dhcping_input
    \/ dhcping_maxwait
    \/ event_wait

Spec == Init /\ [][Next]_vars

NextLate == Next \/ event_wait_late

SpecLate == Init /\ [][NextLate]_vars

\* The process runs its code whenever it can, the clock advances, and the
\* loop calls the handler of a timer that is due.  Nothing is assumed of the
\* outcome of a write or of the arrival of input.
Fairness ==
    /\ WF_vars(main)
    /\ WF_vars(dhcping_connect_local)
    /\ WF_vars(dhcping_connect)
    /\ WF_vars(main_start)
    /\ WF_vars(dhcping_retry_write)
    /\ WF_vars(dhcping_retry)
    /\ WF_vars(dhcping_maxwait)
    /\ WF_vars(event_wait)

SpecFair == Init /\ [][Next]_vars /\ Fairness


(***************************************************************************)
(* Properties.                                                             *)
(***************************************************************************)
\* the reactor has been started: main added the input event
Started == ev_input.pending

Min(a, b) == IF a < b THEN a ELSE b

\* the times of the packets sent
SentTimes == [k \in 1 .. Len(sent) |-> sent[k].t]

\* a packet with the secs field blanked
SansSecs(p) == [p EXCEPT !.secs = htons(0)]

C2_DeadlineExitsTwo ==
    last.ev = "maxwait"
        => /\ pc = "exited" /\ status = <<2>> /\ cause = "maxwait"
           /\ warned = IF dhcping.verbose
                       THEN << "timeout waiting for reply" >> ELSE <<>>

\* the deadline fires on a quiet run that still has tries left and its
\* retry timer armed
C2_Witness ==
    /\ last.ev = "maxwait" /\ status = <<2>>
    /\ dhcping.retries > 0 /\ ev_retry.pending /\ ~dhcping.verbose

\* the tries are spent and the process is in the event loop
Exhausted == pc = "event_dispatch" /\ dhcping.retries = 0

\* C3: the send that brings retries to zero leaves the process in the event
\* loop with the input event and the deadline timer armed and no retry
\* timer; from there it only waits, and the process ends only through a read
\* that succeeds (0), a read that fails fatally (1) or the deadline (2).
C3_ExhaustionNotTerminal ==
    /\ [](Exhausted => /\ ev_input.pending /\ ev_maxwait.pending
                       /\ ~ev_retry.pending /\ status = <<>>)
    /\ [][(pc = "write" /\ last'.ev = "write" /\ last'.rv >= 0
           /\ dhcping'.retries = 0) => Exhausted']_vars
    /\ [][Exhausted => \/ Exhausted' /\ sent' = sent
                       \/ /\ pc' = "exited" /\ last'.ev = "input"
                          /\ last'.rv >= 0 /\ status' = <<0>>
                       \/ /\ pc' = "exited" /\ last'.ev = "input"
                          /\ last'.rv = -1 /\ status' = <<1>>
                       \/ /\ pc' = "exited" /\ last'.ev = "maxwait"
                          /\ status' = <<2>>]_vars

\* the tries are spent and the process is still waiting, seconds later
C3_Witness ==
    /\ Exhausted /\ status = <<>> /\ Len(sent) = tries
    /\ tries > 1 /\ now > sent[Len(sent)].t + 1

\* C4: with tries, interval and wait in their ranges, the probe starts only
\* if tries x interval <= wait; a combination with tries x interval > wait
\* ends with status 1 before a socket is opened or a packet sent.  The
\* check itself refuses exactly the combinations with tries x interval >
\* wait, over the whole of the three ranges.
C4_TimingEnforced ==
    IF pc = "main"
    THEN \A t \in DHCP_TRIES_MIN .. DHCP_TRIES_MAX,
            i \in DHCP_IVAL_MIN .. DHCP_IVAL_MAX,
            w \in DHCP_MAXWAIT_MIN .. DHCP_MAXWAIT_MAX :
             main_timing_refused(t, i, w) <=> (t * i > w)
    ELSE
        LET inrange == /\ tries \in DHCP_TRIES_MIN .. DHCP_TRIES_MAX
                       /\ dhcping.interval \in DHCP_IVAL_MIN .. DHCP_IVAL_MAX
                       /\ maxwait_tv \in DHCP_MAXWAIT_MIN .. DHCP_MAXWAIT_MAX
            over == tries * dhcping.interval > maxwait_tv
        IN  /\ (inrange /\ over)
                => /\ pc = "exited" /\ status = <<1>>
                   /\ socks.opened = 0 /\ sent = <<>> /\ res = 0 /\ ~Started
            /\ (pc # "exited" \/ socks.opened > 0 \/ sent # <<>> \/ res > 0)
                => (inrange /\ ~over)

\* tries=5, interval=2, wait=8 is refused by the timing check
C4_Witness ==
    /\ argv.t = <<5>> /\ argv.w = <<8>> /\ dhcping.interval = 2
    /\ status = <<1>> /\ cause = "timing" /\ socks.opened = 0

\* C5: on a punctual reactor, the packets are sent at 0, interval, ...,
\* never more than tries of them, all before the deadline; a run that no
\* read and no write ends exits with status 2 when maxwait has elapsed,
\* after exactly tries packets.
C5_NoReplySchedule ==
    Started =>
        /\ now <= maxwait_tv
        /\ Len(sent) <= tries
        /\ \A k \in 1 .. Len(sent) :
               /\ sent[k].t = (k - 1) * dhcping.interval
               /\ sent[k].t < maxwait_tv
        /\ (pc = "exited" /\ cause \notin {"input", "transmit"})
               => /\ status = <<2>> /\ cause = "maxwait"
                  /\ now = maxwait_tv
                  /\ Len(sent) = tries

\* tries=3, interval=2, wait=8 and no reply: sends at 0, 2, 4, exit 2 at 8
C5_Witness ==
    /\ tries = 3 /\ dhcping.interval = 2 /\ maxwait_tv = 8
    /\ status = <<2>> /\ now = 8 /\ SentTimes = <<0, 2, 4>>

\* C6: on a punctual reactor, when the first datagram is read at a time r
\* with 0 < r < maxwait that is no multiple of interval, the process exits
\* with status 0 having sent exactly min(tries, floor(r / interval) + 1)
\* packets, none of them after r.
C6_ReplyBetweenSends ==
    (/\ pc = "exited" /\ last.ev = "input" /\ last.rv >= 0
     /\ 0 < now /\ now < maxwait_tv /\ now % dhcping.interval # 0)
        => /\ status = <<0>>
           /\ Len(sent) = Min(tries, (now \div dhcping.interval) + 1)
           /\ \A k \in 1 .. Len(sent) : sent[k].t < now

\* interval=2, tries=3, reply at t=3: two packets, at 0 and 2
C6_Witness ==
    /\ tries = 3 /\ dhcping.interval = 2 /\ maxwait_tv = 8
    /\ status = <<0>> /\ now = 3 /\ SentTimes = <<0, 2>>

\* C7: every write hands over the whole packet buffer, BOOTP_MIN_LEN bytes,
\* and from dhcping_packet_init to the exit no field of the packet but secs
\* changes: all packets sent, and the buffer, agree in every other field.
C7_OnlySecsChanges ==
    \A k \in 1 .. Len(sent) :
        /\ sent[k].len = BOOTP_MIN_LEN
        /\ SansSecs(sent[k].pkt) = SansSecs(sent[1].pkt)
        /\ SansSecs(dhcping.packet) = SansSecs(sent[1].pkt)
        /\ sent[k].pkt.op = 1 /\ sent[k].pkt.hops = 1
        /\ sent[k].pkt.flags = 0

\* three packets have been sent and their secs fields differ
C7_Witness ==
    /\ Len(sent) >= 3
    /\ sent[1].pkt.secs # sent[2].pkt.secs
    /\ sent[2].pkt.secs # sent[3].pkt.secs

\* C8: status 0 comes only from dhcping_input after a read that returned a
\* datagram, with the deadline handler not yet run (event_dispatch never
\* returns to main's return (0)); status 2 comes only from dhcping_maxwait.
C8_ExitStatusOrigin ==
    /\ status = <<0>> => /\ cause = "input" /\ last.ev = "input"
                         /\ last.rv >= 0 /\ ev_maxwait.pending
    /\ status = <<2>> => cause = "maxwait" /\ last.ev = "maxwait"
    /\ cause # "main return"

\* a datagram is read after the tries are spent, in the second of the
\* deadline, before the deadline handler has run
C8_Witness ==
    /\ status = <<0>> /\ dhcping.retries = 0 /\ now = ev_maxwait.at

\* dhcping.s is the open socket, bound to a local candidate and connected
Connected ==
    /\ dhcping.s # -1 /\ sock.open /\ sock.fd = dhcping.s
    /\ sock.bound >= 1 /\ sock.peer >= 1

\* C9: dhcping_connect returns a socket that is bound and connected, or the
\* process exits with status 1: after a failed local resolution, or once
\* socket, bind, remote resolution or connect has failed for every local
\* candidate, no packet is sent and the reactor is not started.
C9_ConnectedOrExitOne ==
    /\ pc \in {"dhcping_packet_init", "write", "event_dispatch"} => Connected
    /\ (Started \/ sent # <<>>) => Connected
    /\ (pc = "exited" /\ res > 0 /\ ~Connected)
           => /\ status = <<1>> /\ cause \in {"server", "local address"}
              /\ socks.opened = socks.closed
    /\ cause \in {"local address gai", "server", "local address"}
           => /\ status = <<1>> /\ sent = <<>> /\ ~Started
              /\ ~ev_maxwait.pending /\ ~Connected

\* two local candidates were tried, the last failed at socket or bind, and
\* the process has exited with status 1
C9_Witness ==
    /\ status = <<1>> /\ cause = "local address" /\ res = 2
    /\ socks.opened = socks.closed /\ sent = <<>>

\* the rest of the command line is one main accepts
ArgvOtherwiseValid ==
    /\ argv.h # <<>> /\ ether_aton(argv.h[1]) # <<>>
    /\ argv.s /\ ~argv.operands
    /\ argv.t = <<>> \/ argv.t[1] \in DHCP_TRIES_MIN .. DHCP_TRIES_MAX
    /\ argv.w = <<>> \/ argv.w[1] \in DHCP_MAXWAIT_MIN .. DHCP_MAXWAIT_MAX

\* C10: a -i option with a value in 1..10 is accepted and becomes the
\* interval of the retry timer and of the timing check; a value outside
\* 1..10 ends the process with status 1.
C10_IntervalOption ==
    (pc # "main" /\ argv.i # <<>>) =>
        IF argv.i[1] \in DHCP_IVAL_MIN .. DHCP_IVAL_MAX
        THEN ArgvOtherwiseValid
                 => /\ dhcping.interval = argv.i[1]
                    /\ cause # "usage"
        ELSE status = <<1>>


Transient == {"EAGAIN", "EINTR"}

\* C11: a write that fails with EINTR or EAGAIN is tried again with the same
\* packet and changes neither retries nor secs nor a timer; retries goes
\* down by exactly one per packet sent, however many transient failures
\* came before; a write that fails otherwise ends the process with status
\* 1, at the first send as at a later one.
C11_TransientSendRetried ==
    /\ [](dhcping.retries = tries - Len(sent))
    /\ [][(pc = "write" /\ last'.ev = "write" /\ last'.rv = -1
           /\ last'.errno \in Transient)
              => /\ pc' = "write"
                 /\ UNCHANGED <<dhcping, ev_input, ev_retry, ev_maxwait,
                                sent, status, now>>]_vars
    /\ [][(pc = "write" /\ last'.ev = "write" /\ last'.rv = -1
           /\ last'.errno \notin Transient)
              => /\ pc' = "exited" /\ status' = <<1>> /\ cause' = "transmit"
                 /\ UNCHANGED <<dhcping, sent>>]_vars
    /\ [][(pc = "write" /\ last'.ev = "write" /\ last'.rv >= 0)
              => /\ Len(sent') = Len(sent) + 1
                 /\ dhcping'.retries = dhcping.retries - 1]_vars

\* a retransmission is waiting in the write loop after two transient
\* failures, with the budget untouched by them
C11_Witness ==
    /\ pc = "write" /\ spins >= 2 /\ last.errno \in Transient
    /\ Len(sent) >= 1 /\ dhcping.retries = tries - Len(sent)

\* a step of dhcping_input: the loop hands over to it and takes no time
InputStep == pc = "event_dispatch" /\ last'.ev = "input" /\ now' = now

\* C12: a call of dhcping_input whose read fails with EAGAIN or EINTR
\* changes nothing: the process stays in the loop with the input event
\* registered, and retries, secs, the packet and both timers are as before;
\* a read failing with any other error ends the process with status 1.
C12_TransientReadIgnored ==
    /\ [][(InputStep /\ last'.rv = -1 /\ last'.errno \in Transient)
              => /\ pc' = "event_dispatch" /\ status' = <<>>
                 /\ ev_input'.pending
                 /\ UNCHANGED <<dhcping, ev_input, ev_retry, ev_maxwait,
                                sent, spins, warned>>]_vars
    /\ [][(InputStep /\ last'.rv = -1 /\ last'.errno \notin Transient)
              => /\ pc' = "exited" /\ status' = <<1>>
                 /\ cause' = "input"]_vars

\* a transient read error has been ignored while the retry timer is armed
C12_Witness ==
    /\ pc = "event_dispatch" /\ last.ev = "input" /\ last.rv = -1
    /\ last.errno = "EINTR" /\ ev_input.pending /\ ev_retry.pending
    /\ status = <<>> /\ Len(sent) >= 1


\* C13: no handler keeps control for ever: whatever write and read return,
\* a call of dhcping_retry comes back to the loop or ends the process, so
\* the process waits only in the loop and a timer or input that is due is
\* not kept waiting by the write loop.
C13_HandlersReturn == (pc = "write") ~> (pc # "write")


\* C14: a run that has entered the event loop ends with a status, every time,
\* whatever replies arrive, whatever transient errors read and write report
\* and however the retry timer fires; it ends no later than the expiry of
\* the maxwait timer, which is added once and never deleted or added again.
C14_EndsByDeadline ==
    /\ [][ev_maxwait.pending
            => ev_maxwait'.at = ev_maxwait.at /\ ev_maxwait.at = maxwait_tv]_vars
    /\ [](Started => now <= ev_maxwait.at)
    /\ [](pc = "exited" => status \in {<<0>>, <<1>>, <<2>>})
    /\ (pc = "event_dispatch") ~> (pc = "exited")


\* the 16-bit number a receiver reads from two bytes in network byte order
ntohs(b) == b[1] * 256 + b[2]

\* C15: the secs field of the k-th packet sent (k = 0 for the first) is
\* k * interval in network byte order: 0 in the first packet, interval more
\* in each retransmission, never less than before, and with tries <= 32 and
\* interval <= 10 never wrapped around 16 bits.
C15_SecsOfKthPacket ==
    /\ \A k \in 1 .. Len(sent) :
         /\ sent[k].pkt.secs \in (0 .. 255) \X (0 .. 255)
         /\ ntohs(sent[k].pkt.secs) = (k - 1) * dhcping.interval
         /\ k > 1 => ntohs(sent[k].pkt.secs)
                        = ntohs(sent[k - 1].pkt.secs) + dhcping.interval
    /\ dhcping.secs < USHRT_MOD
    /\ \A t \in DHCP_TRIES_MIN .. DHCP_TRIES_MAX :
         \A i \in DHCP_IVAL_MIN .. DHCP_IVAL_MAX : (t - 1) * i < USHRT_MOD

\* a second retransmission has been sent, carrying twice the interval
C15_Witness ==
    /\ Len(sent) >= 3 /\ dhcping.interval > 0
    /\ ntohs(sent[3].pkt.secs) = 2 * dhcping.interval
    /\ ntohs(sent[1].pkt.secs) = 0


\* a local candidate for which socket, bind and one connect succeed
Good(c) ==
    /\ c.socket /\ c.bind /\ c.remote.gai
    /\ \E k \in DOMAIN c.remote.connect : c.remote.connect[k]

\* a local candidate that was bound and then failed at the remote side, in
\* getaddrinfo or in every connect
RemoteFails(c) == c.socket /\ c.bind /\ ~Good(c)

\* dhcping_connect has ended the process: no candidate gave a socket
ConnectFailed == pc = "exited" /\ cause \in {"server", "local address"}

\* C16: when every candidate fails and one of them, at whatever place in the
\* list, failed at the remote side (resolution or connect), the process dies
\* with the server error and not with the local address error; the status
\* is 1 either way.
C16_ServerErrorReported ==
    /\ ConnectFailed => status = <<1>>
    /\ (ConnectFailed
        /\ \E j \in DOMAIN conn.tried : RemoteFails(conn.tried[j]))
          => cause = "server"


\* C17: between two handler calls of a running process the packets sent and
\* dhcping.retries add up to the tries configured, retries is not below 0
\* (the unsigned counter has not wrapped), and the retry timer is pending
\* exactly when retries > 0; dhcping_retry is never running with retries = 0;
\* so no more than tries packets are sent, and with one try one packet is
\* sent and the retry timer is never added.
C17_RetryBudget ==
    /\ pc = "event_dispatch"
         => /\ Len(sent) + dhcping.retries = tries
            /\ dhcping.retries >= 0
            /\ ev_retry.pending <=> dhcping.retries > 0
    /\ pc = "write" => dhcping.retries > 0
    /\ Len(sent) <= tries
    /\ (Started /\ tries = 1)
         => /\ ev_retry = [pending |-> FALSE, at |-> 0]
            /\ pc = "event_dispatch" => Len(sent) = 1

\* the last of three tries has been sent and the loop goes on without a
\* retry timer
C17_Witness ==
    /\ pc = "event_dispatch" /\ tries = 3 /\ Len(sent) = 3
    /\ dhcping.retries = 0 /\ ~ev_retry.pending /\ now > sent[3].t


\* C18: when the first packet is written the input event and the maxwait
\* timer are pending already, the timer counted from a time not after the
\* first send; no packet is written in a state where a reply could not be
\* read or the run could not time out.
C18_ArmedBeforeFirstSend ==
    /\ [][Len(sent') > Len(sent)
            => /\ ev_input.pending /\ ev_maxwait.pending
               /\ ev_maxwait.at - maxwait_tv <= now]_vars
    /\ [](pc = "write" => ev_input.pending /\ ev_maxwait.pending)
    /\ [](sent # <<>> => ev_maxwait.at <= sent[1].t + maxwait_tv)

\* the first packet has just been written with both events pending
C18_Witness ==
    /\ pc = "event_dispatch" /\ Len(sent) = 1 /\ last.ev = "write"
    /\ ev_input.pending /\ ev_maxwait.pending
    /\ ev_maxwait.at = sent[1].t + maxwait_tv


\* dhcping_connect has returned a socket to main
Returned == pc = "dhcping_packet_init"

\* C19: dhcping_connect goes through the local candidates in the order of
\* the list and, for one that binds, through the remote candidates in the
\* order of theirs; the socket it returns is that of the first local
\* candidate for which socket, bind and a connect succeed, connected to the
\* first remote candidate that accepts; no later candidate is tried; every
\* socket made for a candidate that failed is closed, so that one socket
\* is open when the probe starts.
C19_FirstGoodCandidate ==
    /\ [](pc \in {"dhcping_connect_loop", "dhcping_packet_init"} \/ ConnectFailed
            => /\ Len(conn.tried) = (IF pc = "dhcping_connect_loop"
                                     THEN res - 1 ELSE res)
               /\ socks.opened
                    = Cardinality({j \in DOMAIN conn.tried : conn.tried[j].socket}))
    /\ [](pc = "dhcping_connect_loop" \/ ConnectFailed
            => /\ \A j \in DOMAIN conn.tried : ~Good(conn.tried[j])
               /\ socks.closed = socks.opened)
    /\ [](Returned
            => /\ Good(conn.tried[res])
               /\ \A j \in 1 .. res - 1 : ~Good(conn.tried[j])
               /\ sock.open /\ sock.fd = dhcping.s /\ sock.bound = res
               /\ conn.tried[res].remote.connect[sock.peer]
               /\ \A k \in 1 .. sock.peer - 1 :
                    ~conn.tried[res].remote.connect[k]
               /\ socks.opened = socks.closed + 1)
    /\ [][(pc = "dhcping_connect_loop" /\ pc' = "dhcping_connect_loop")
            => res' = res + 1 /\ ~Good(conn'.tried[res])]_vars
    /\ [][(pc = "dhcping_connect_loop" /\ Len(conn'.tried) > Len(conn.tried)
           /\ Good(conn'.tried[Len(conn'.tried)]))
            => Returned' /\ res' = res]_vars
    /\ [](Started => sock.open /\ socks.opened = socks.closed + 1)

\* the second local candidate gave the socket, at its second remote
\* candidate, after the first local candidate had failed in bind
C19_Witness ==
    /\ Returned /\ res = 2 /\ sock.bound = 2 /\ sock.peer = 2
    /\ conn.tried[1].socket /\ ~conn.tried[1].bind
    /\ socks = [opened |-> 2, closed |-> 1]

====
